---- MODULE Spec2Model ----
(***************************************************************************)
(* Model of util/pptx_to_html.py: the PPTX -> HTML conversion pipeline.    *)
(*                                                                         *)
(* The main process (main -> pptx_to_html) creates the asset directory,    *)
(* extracts every slide sequentially, creates a multiprocessing.Pool,      *)
(* hands one process_slide task per slide to pool.starmap, waits for the   *)
(* ordered result list (or the exception starmap re-raises), assembles     *)
(* the page and writes it.  Worker processes run process_slide, one        *)
(* process_shape_data call per step, so that tasks interleave.             *)
(*                                                                         *)
(* Conventions.                                                            *)
(*  - A Python Optional is a sequence: None is <<>>, a value v is <<v>>.   *)
(*  - An HTML string is a sequence of element tokens                       *)
(*    [tag, attr, body]; "" is <<>> and string concatenation is \o.        *)
(*  - Python indices are 0-based: the object at Python index i is at       *)
(*    position i + 1 of the TLA+ sequence.                                 *)
(*  - Geometry (left/top/width/height -> common_style) and the run-level   *)
(*    styling of text are not modelled: no checked property reads them.    *)
(*    Info-level progress log lines are not modelled either; the log       *)
(*    holds the warning and error records.                                 *)
(***************************************************************************)
EXTENDS Integers, Sequences, FiniteSets, TLC

\* ------------------------------------------------------------------ bounds
MaxSlides == 2
\* shapes in the whole deck
MaxShapes == 2
\* os.cpu_count(): the size multiprocessing.Pool() picks
processes == 2

\* -------------------------------------------------- library enumerations
\* pptx.enum.shapes.MSO_SHAPE_TYPE members, as the integers json.dumps emits
PICTURE == 13
TEXT_BOX == 17
LINE == 9

None == <<>>
Some(v) == <<v>>

\* ------------------------------------------------------- the input deck
\* One colour with a component below 16 and letters above 9, so that
\* {:02x} padding and lower case both matter.
Colors == {<<255, 10, 0>>}

\* Image blobs by what PIL does with them: "png" decodes and saves,
\* "corrupt" makes Image.open raise UnidentifiedImageError (an OSError),
\* "bomb" makes Image.open raise DecompressionBombError (an Exception that
\* is not an OSError).
Blobs == {"png", "corrupt", "bomb"}

\* A shape of the document model (python-pptx objects), reduced to what
\* extract_slide_data reads: shape_type, has_text_frame, the text frame
\* (paragraph levels, or malformed formatting that makes extraction raise),
\* the image blob, and the fill (has_fill models hasattr(shape, 'fill')).
PictureShapes ==
    { [shape_type |-> PICTURE, has_text_frame |-> FALSE, levels |-> <<>>,
       malformed |-> FALSE, blob |-> b, has_fill |-> FALSE,
       fill_type |-> "NONE", rgb |-> None] : b \in Blobs }

TextShapes ==
    { [shape_type |-> TEXT_BOX, has_text_frame |-> TRUE, levels |-> <<0>>,
       malformed |-> FALSE, blob |-> "", has_fill |-> TRUE,
       fill_type |-> "SOLID", rgb |-> Some(c)] : c \in Colors }
    \cup
    { [shape_type |-> TEXT_BOX, has_text_frame |-> TRUE, levels |-> <<0>>,
       malformed |-> m, blob |-> "", has_fill |-> TRUE,
       fill_type |-> t, rgb |-> None] :
         <<t, m>> \in {<<"BACKGROUND", FALSE>>, <<"GRADIENT", FALSE>>,
                       <<"GRADIENT", TRUE>>} }

OtherShapes ==
    { [shape_type |-> LINE, has_text_frame |-> FALSE, levels |-> <<>>,
       malformed |-> FALSE, blob |-> "", has_fill |-> FALSE,
       fill_type |-> "NONE", rgb |-> None] }

Shapes == PictureShapes \cup TextShapes \cup OtherShapes

RECURSIVE Sum(_)
Sum(c) == IF c = <<>> THEN 0 ELSE Head(c) + Sum(Tail(c))

\* The decks whose i-th slide has c[i] shapes.
RECURSIVE DecksOfShape(_)
DecksOfShape(c) ==
    IF c = <<>> THEN {<<>>}
    ELSE { <<s>> \o rest : s \in [1..Head(c) -> Shapes],
                           rest \in DecksOfShape(Tail(c)) }

Decks ==
    UNION { DecksOfShape(c) :
              c \in { d \in UNION { [1..n -> 0..MaxShapes] : n \in 0..MaxSlides } :
                        Sum(d) <= MaxShapes } }

\* ------------------------------------------------------------ formatting
HexDigit == <<"0", "1", "2", "3", "4", "5", "6", "7",
              "8", "9", "a", "b", "c", "d", "e", "f">>

\* '{:02x}'.format(n), 0 <= n <= 255
Hex02(n) == HexDigit[(n \div 16) + 1] \o HexDigit[(n % 16) + 1]

\* rgb_to_hex (module level): None for None, else '#rrggbb'
rgb_to_hex(rgb) ==
    IF rgb = None THEN None
    ELSE Some("#" \o Hex02(rgb[1][1]) \o Hex02(rgb[1][2]) \o Hex02(rgb[1][3]))

\* How an f-string formats an Optional[str]: str(None) is 'None'.
PyFormat(opt) == IF opt = None THEN "None" ELSE opt[1]

\* dict.get(key, default): the default is used only when the key is missing.
DictGet(d, key, default) == IF key \in DOMAIN d THEN d[key] ELSE default

\* ------------------------------------------------------------ extraction
get_fill_color(shape) ==
    IF shape.has_fill
    THEN IF shape.fill_type = "SOLID"
         THEN IF shape.rgb # None THEN rgb_to_hex(shape.rgb) ELSE None
         ELSE IF shape.fill_type = "BACKGROUND" THEN Some("transparent")
         ELSE None
    ELSE None

\* extract_text_frame: the paragraph list, or [] when reading the
\* formatting raises (the except branch).
extract_text_frame(shape) ==
    IF shape.malformed THEN <<>>
    ELSE [p \in 1..Len(shape.levels) |-> [is_title |-> shape.levels[p] = 0]]

\* base64.b64encode(blob).decode('utf-8') and base64.b64decode
b64encode(blob) == "b64:" \o blob
b64decode(text) == CHOOSE b \in Blobs \cup {""} : b64encode(b) = text

\* One dict of extract_slide_data's list.
extract_shape(shape) ==
    [shape_type |-> shape.shape_type,
     has_text_frame |-> shape.has_text_frame,
     text_frame |-> IF shape.has_text_frame THEN Some(extract_text_frame(shape))
                    ELSE None,
     image |-> IF shape.shape_type = PICTURE THEN Some(b64encode(shape.blob))
               ELSE None,
     fill_color |-> get_fill_color(shape)]

extract_slide_data(slide) == [k \in 1..Len(slide) |-> extract_shape(slide[k])]

\* ------------------------------------------------------------------ JSON
\* A JSON value is a tagged record; json.dumps keeps every key of a dict
\* and writes None as null.
JsonOpt(opt) == IF opt = None THEN [t |-> "null", v |-> <<>>]
                ELSE [t |-> "value", v |-> opt]
PyOpt(j) == IF j.t = "null" THEN None ELSE j.v

json_dumps(slide_data) ==
    [k \in 1..Len(slide_data) |->
       [key \in DOMAIN slide_data[k] |->
          IF key \in {"text_frame", "image", "fill_color"}
          THEN JsonOpt(slide_data[k][key])
          ELSE [t |-> "value", v |-> <<slide_data[k][key]>>]]]

json_loads(text) ==
    [k \in 1..Len(text) |->
       [key \in DOMAIN text[k] |->
          IF key \in {"text_frame", "image", "fill_color"}
          THEN PyOpt(text[k][key])
          ELSE text[k][key].v[1]]]

\* ------------------------------------------------------------- rendering
\* os.path.dirname(output_file): the deck is converted into the current
\* directory, so the directory part of the output path is empty.
output_dir == ""

\* os.path.join
os_path_join(a, b) == IF a = "" THEN b ELSE a \o "/" \o b

\* A file name that leaves the shape out.
image_filename_per_slide(slide_index, shape_index) ==
    "slide_" \o ToString(slide_index + 1) \o "_image.png"

\* f"slide_{slide_index + 1}_image_{shape_index + 1}.png"
image_filename(slide_index, shape_index) ==
    "slide_" \o ToString(slide_index + 1) \o "_image_"
             \o ToString(shape_index + 1) \o ".png"

\* with Image.open(BytesIO(image_bytes)) as img: img.save(image_path, "PNG")
\* The exception it raises, or None when the PNG is written.
Image_open_save(image_bytes) ==
    CASE image_bytes = "png" -> None
      [] image_bytes = "corrupt" -> Some("UnidentifiedImageError")
      [] image_bytes = "bomb" -> Some("DecompressionBombError")

\* issubclass(type(e), OSError)
IsOSError(exc) == exc \in {"OSError", "UnidentifiedImageError"}

\* A renderer that decodes and saves whatever the flag says.
materialize_always(ignore) == TRUE

\* if not ignore_images:
materialize(ignore) == ~ignore

Token(tag, attr, body) == [tag |-> tag, attr |-> attr, body |-> body]

LogRecord(level, msg, slide, shape, detail) ==
    [level |-> level, msg |-> msg, slide |-> slide, shape |-> shape,
     detail |-> detail]

\* What one call does: the exception that leaves it (raised), the string
\* it returns (html), the file it saves (write) and what it logs.
Outcome(raised, html, write, logged) ==
    [raised |-> raised, html |-> html, write |-> write, log |-> logged]

\* The text branch: one <h1 class='title'> or <p class='paragraph'> per
\* paragraph inside the positioned <div>.
render_text(shape_data) ==
    LET paragraphs == shape_data.text_frame[1]
        text_content == [p \in 1..Len(paragraphs) |->
                           IF paragraphs[p].is_title THEN "h1" ELSE "p"]
        bg_color == "background-color: "
                      \o PyFormat(DictGet(shape_data, "fill_color",
                                          Some("transparent")))
                      \o ";"
    IN  <<Token("div", bg_color, text_content)>>

process_shape_data(shape_index, shape_data, image_dir, slide_index, ignore) ==
    IF shape_data.shape_type = PICTURE
    THEN LET filename == image_filename(slide_index, shape_index)
             img == <<Token("img", "images/" \o filename, <<>>)>>
         IN  IF materialize(ignore)
             THEN LET image_bytes == b64decode(shape_data.image[1])
                      image_path == os_path_join(image_dir, filename)
                      exc == Image_open_save(image_bytes)
                  IN  IF exc = None
                      THEN Outcome(None, img, Some(image_path), {})
                      ELSE IF IsOSError(exc[1])
                      THEN Outcome(None,
                             <<Token("p", "",
                                 <<"[Image processing failed for slide "
                                   \o ToString(slide_index + 1) \o ", shape "
                                   \o ToString(shape_index + 1) \o "]">>)>>,
                             None,
                             {LogRecord("WARNING", "Failed to process image",
                                        Some(slide_index + 1),
                                        Some(shape_index + 1), exc[1])})
                      ELSE Outcome(exc, <<>>, None, {})
             ELSE Outcome(None, img, None, {})
    ELSE IF shape_data.has_text_frame
    THEN Outcome(None, render_text(shape_data), None, {})
    ELSE Outcome(None, <<>>, None, {})

\* A join that puts the next shape's fragment in front.
JoinShape_prepend(joined, fragment) == fragment \o joined

\* "".join(...): the next shape's fragment goes after those already joined
JoinShape(joined, fragment) == joined \o fragment

\* enumerate(slide_data): the 0-based index of the shape at a position
ShapeIndex(position) == position - 1

\* ------------------------------------------------------------ MapResult
\* multiprocessing.pool.MapResult._set(i, (True, result)): the result goes
\* to slot i of the value list (chunks hold one task: with at most
\* 4 * processes slides, starmap picks chunksize 1).
MapResultSet(value, i, result) == [value EXCEPT ![i + 1] = Some(result)]

\* ----------------------------------------------------------------- state
VARIABLES
    prs,              \* the document model: a sequence of slides
    ignore_images,    \* the -i flag
    pc,               \* where the main process is
    image_dir,        \* the asset directory's path once created, else None
    image_files,      \* the asset directory: [path, slide_index, shape_index] per save
    slide_data_list,  \* the slides extracted so far
    pool,             \* "none", "running" or "terminated"
    tasks,            \* one record per task handed to starmap
    map_value,        \* MapResult._value: one Optional result per task
    map_success,      \* MapResult._success
    map_exc,          \* the first exception a task raised, else None
    slide_contents,   \* what the try/except leaves in slide_contents
    html_content,     \* the assembled page: one container per slide
    output_file,      \* [written, content]: the output file on disk
    exit_status,      \* the process's exit status, None while running
    log               \* the warning and error records logged

vars == <<prs, ignore_images, pc, image_dir, image_files, slide_data_list,
          pool, tasks, map_value, map_success, map_exc, slide_contents,
          html_content, output_file, exit_status, log>>

Init ==
    /\ prs \in Decks
    /\ ignore_images \in BOOLEAN
    /\ pc = "makedirs"
    /\ image_dir = None
    /\ image_files = {}
    /\ slide_data_list = <<>>
    /\ pool = "none"
    /\ tasks = <<>>
    /\ map_value = <<>>
    /\ map_success = TRUE
    /\ map_exc = None
    /\ slide_contents = <<>>
    /\ html_content = <<>>
    /\ output_file = [written |-> "no", content |-> <<>>]
    /\ exit_status = None
    /\ log = {}

\* An uncaught exception leaves pptx_to_html and main: traceback, status 1.
Uncaught ==
    /\ pc' = "exit"
    /\ exit_status' = Some(1)

\* ---------------------------------------------------------- main process
\* os.makedirs(image_dir, exist_ok=True)
MakeDirs ==
    /\ pc = "makedirs"
    /\ image_dir' = Some(os_path_join(output_dir, "images"))
    /\ pc' = "extract"
    /\ UNCHANGED <<prs, ignore_images, image_files, slide_data_list, pool,
                   tasks, map_value, map_success, map_exc, slide_contents,
                   html_content, output_file, exit_status, log>>

\* os.makedirs raises (no permission, a file in the way)
MakeDirsFails ==
    /\ pc = "makedirs"
    /\ Uncaught
    /\ UNCHANGED <<prs, ignore_images, image_dir, image_files,
                   slide_data_list, pool, tasks, map_value, map_success,
                   map_exc, slide_contents, html_content, output_file, log>>

\* The warnings extract_text_frame logs for one slide: its message names
\* neither the slide nor the shape.
ExtractWarnings(slide) ==
    { LogRecord("WARNING", "Error extracting text frame", None, None,
                "malformed formatting") :
        k \in { j \in 1..Len(slide) :
                  slide[j].has_text_frame /\ slide[j].malformed } }

\* A pipeline that does not wait for the extraction.
ExtractionNotAwaited == TRUE

\* The list comprehension has every slide of prs.slides extracted.
ExtractionComplete == Len(slide_data_list) = Len(prs)

\* One iteration of [extract_slide_data(slide) for slide in prs.slides]
ExtractSlide ==
    /\ pc = "extract"
    /\ ~ExtractionComplete
    /\ LET slide == prs[Len(slide_data_list) + 1]
       IN  /\ slide_data_list' = Append(slide_data_list, extract_slide_data(slide))
           /\ log' = log \cup ExtractWarnings(slide)
    /\ UNCHANGED <<prs, ignore_images, pc, image_dir, image_files, pool,
                   tasks, map_value, map_success, map_exc, slide_contents,
                   html_content, output_file, exit_status>>

\* with multiprocessing.Pool() as pool:
CreatePool ==
    /\ pc = "extract"
    /\ ExtractionComplete
    /\ pool' = "running"
    /\ pc' = "starmap"
    /\ UNCHANGED <<prs, ignore_images, image_dir, image_files,
                   slide_data_list, tasks, map_value, map_success, map_exc,
                   slide_contents, html_content, output_file, exit_status, log>>

\* multiprocessing.Pool() raises (no processes, no semaphores): the call is
\* outside the try block.
CreatePoolFails ==
    /\ pc = "extract"
    /\ ExtractionComplete
    /\ Uncaught
    /\ UNCHANGED <<prs, ignore_images, image_dir, image_files,
                   slide_data_list, pool, tasks, map_value, map_success,
                   map_exc, slide_contents, html_content, output_file, log>>

\* The argument tuples built for starmap, and the MapResult waiting for them.
Starmap ==
    /\ pc = "starmap"
    /\ tasks' = [i \in 1..Len(slide_data_list) |->
                   [slide_data_json |-> json_dumps(slide_data_list[i]),
                    image_dir |-> image_dir[1],
                    slide_index |-> i - 1,
                    st |-> "queued", done |-> 0, html |-> <<>>]]
    /\ map_value' = [i \in 1..Len(slide_data_list) |-> None]
    /\ pc' = "wait"
    /\ UNCHANGED <<prs, ignore_images, image_dir, image_files,
                   slide_data_list, pool, map_success, map_exc,
                   slide_contents, html_content, output_file, exit_status, log>>

\* --------------------------------------------------------------- workers
Running == { i \in 1..Len(tasks) : tasks[i].st = "running" }

\* A free worker process takes task i off the queue.
StartTask(i) ==
    /\ pool = "running"
    /\ tasks[i].st = "queued"
    /\ Cardinality(Running) < processes
    /\ tasks' = [tasks EXCEPT ![i].st = "running"]
    /\ UNCHANGED <<prs, ignore_images, pc, image_dir, image_files,
                   slide_data_list, pool, map_value, map_success, map_exc,
                   slide_contents, html_content, output_file, exit_status, log>>

\* process_slide's next process_shape_data call.  An exception that leaves
\* it ends the task; the pool hands it to MapResult._set(i, (False, exc)),
\* which keeps the first one.
RenderShape(i) ==
    /\ pool = "running"
    /\ tasks[i].st = "running"
    /\ LET t == tasks[i]
           slide_data == json_loads(t.slide_data_json)
           position == t.done + 1
       IN  /\ position <= Len(slide_data)
           /\ LET r == process_shape_data(ShapeIndex(position),
                                          slide_data[position], t.image_dir,
                                          t.slide_index, ignore_images)
              IN  /\ image_files' =
                        IF r.write = None THEN image_files
                        ELSE image_files \cup
                               {[path |-> r.write[1],
                                 slide_index |-> t.slide_index,
                                 shape_index |-> ShapeIndex(position)]}
                  /\ log' = log \cup r.log
                  /\ IF r.raised = None
                     THEN /\ tasks' = [tasks EXCEPT
                                         ![i].done = position,
                                         ![i].html = JoinShape(t.html, r.html)]
                          /\ UNCHANGED <<map_success, map_exc>>
                     ELSE /\ tasks' = [tasks EXCEPT ![i].done = position,
                                                    ![i].st = "raised"]
                          /\ map_success' = FALSE
                          /\ map_exc' = IF map_success THEN r.raised ELSE map_exc
    /\ UNCHANGED <<prs, ignore_images, pc, image_dir, slide_data_list, pool,
                   map_value, slide_contents, html_content, output_file,
                   exit_status>>

\* process_slide returns the joined string; MapResult._set(i, (True, html))
\* stores it unless a task has failed already.
ReturnTask(i) ==
    /\ pool = "running"
    /\ tasks[i].st = "running"
    /\ tasks[i].done = Len(tasks[i].slide_data_json)
    /\ tasks' = [tasks EXCEPT ![i].st = "returned"]
    /\ map_value' = IF map_success
                    THEN MapResultSet(map_value, tasks[i].slide_index, tasks[i].html)
                    ELSE map_value
    /\ UNCHANGED <<prs, ignore_images, pc, image_dir, image_files,
                   slide_data_list, pool, map_success, map_exc,
                   slide_contents, html_content, output_file, exit_status, log>>

\* MapResult._number_left == 0: every task has reported.
AllReported == \A i \in 1..Len(tasks) : tasks[i].st \in {"returned", "raised"}

\* ------------------------------------------------- main process, continued
\* pool.starmap returns the value list; the with block terminates the pool.
StarmapReturns ==
    /\ pc = "wait"
    /\ AllReported
    /\ map_success
    /\ slide_contents' = [i \in 1..Len(map_value) |-> map_value[i][1]]
    /\ pool' = "terminated"
    /\ pc' = "assemble"
    /\ UNCHANGED <<prs, ignore_images, image_dir, image_files,
                   slide_data_list, tasks, map_value, map_success, map_exc,
                   html_content, output_file, exit_status, log>>

\* pool.starmap re-raises the first exception of a task:
\* except Exception as e: logging.error(...); slide_contents = []
StarmapRaises ==
    /\ pc = "wait"
    /\ AllReported
    /\ ~map_success
    /\ log' = log \cup {LogRecord("ERROR",
                                  "An error occurred during slide processing",
                                  None, None, map_exc[1])}
    /\ slide_contents' = <<>>
    /\ pool' = "terminated"
    /\ pc' = "assemble"
    /\ UNCHANGED <<prs, ignore_images, image_dir, image_files,
                   slide_data_list, tasks, map_value, map_success, map_exc,
                   html_content, output_file, exit_status>>

\* html_content += "".join(<div class="slide ..."> ... for content in
\* slide_contents), inside the fixed page template
Assemble ==
    /\ pc = "assemble"
    /\ html_content' = [i \in 1..Len(slide_contents) |->
                          [class |-> "slide", content |-> slide_contents[i]]]
    /\ pc' = "write"
    /\ UNCHANGED <<prs, ignore_images, image_dir, image_files,
                   slide_data_list, pool, tasks, map_value, map_success,
                   map_exc, slide_contents, output_file, exit_status, log>>

\* with open(output_file, "w") as f: f.write(html_content)
WriteOutput ==
    /\ pc = "write"
    /\ output_file' = [written |-> "complete", content |-> html_content]
    /\ pc' = "return"
    /\ UNCHANGED <<prs, ignore_images, image_dir, image_files,
                   slide_data_list, pool, tasks, map_value, map_success,
                   map_exc, slide_contents, html_content, exit_status, log>>

\* open raises (nothing on disk) or write raises (a truncated file)
WriteOutputFails ==
    /\ pc = "write"
    /\ \E w \in {"no", "truncated"} :
          output_file' = [written |-> w, content |-> <<>>]
    /\ Uncaught
    /\ UNCHANGED <<prs, ignore_images, image_dir, image_files,
                   slide_data_list, pool, tasks, map_value, map_success,
                   map_exc, slide_contents, html_content, log>>

\* pptx_to_html returns; main logs "Conversion complete" and ends: status 0
MainReturns ==
    /\ pc = "return"
    /\ exit_status' = Some(0)
    /\ pc' = "exit"
    /\ UNCHANGED <<prs, ignore_images, image_dir, image_files,
                   slide_data_list, pool, tasks, map_value, map_success,
                   map_exc, slide_contents, html_content, output_file, log>>

Next ==
    \/ MakeDirs
    \/ MakeDirsFails
    \/ ExtractSlide
    \/ CreatePool
    \/ CreatePoolFails
    \/ Starmap
    \/ \E i \in 1..Len(tasks) : StartTask(i)
    \/ \E i \in 1..Len(tasks) : RenderShape(i)
    \/ \E i \in 1..Len(tasks) : ReturnTask(i)
    \/ StarmapReturns
    \/ StarmapRaises
    \/ Assemble
    \/ WriteOutput
    \/ WriteOutputFails
    \/ MainReturns

Spec == Init /\ [][Next]_vars

\* ================================================================ claims
\* The page has been assembled (line 185 has run).
Assembled == pc \in {"write", "return"} \/ (pc = "exit" /\ pool = "terminated")

LastOf(seq) == seq[Len(seq)]

\* The fragments of the first n extracted shapes of slide number i
\* (1-based), in extraction order, the shape at position k rendered with
\* shape index k - 1.
RECURSIVE RenderOf(_, _)
RenderOf(i, n) ==
    IF n = 0 THEN <<>>
    ELSE RenderOf(i, n - 1)
           \o process_shape_data(n - 1, slide_data_list[i][n], image_dir[1],
                                 i - 1, ignore_images).html

ImgToken(slide_number, shape_number) ==
    Token("img",
          "images/slide_" \o ToString(slide_number) \o "_image_"
                          \o ToString(shape_number) \o ".png",
          <<>>)

PlaceholderToken(slide_number, shape_number) ==
    Token("p", "",
          <<"[Image processing failed for slide " \o ToString(slide_number)
            \o ", shape " \o ToString(shape_number) \o "]">>)

\* C1: for every deck of N slides and every completion order of the tasks,
\* the assembled document holds N slide fragments and the one at output
\* position i is the one rendered from slide i's shape records.
C1_AssembledInSlideOrder ==
    Assembled =>
      /\ Len(html_content) = Len(prs)
      /\ \A i \in 1..Len(prs) :
            tasks[i].st = "returned" =>
              html_content[i].content = RenderOf(i, Len(slide_data_list[i]))

\* Supporting C1: whenever no task raised, the assembled document is in
\* slide order whatever the order in which the tasks returned.
SlideOrderWhenNoTaskRaises ==
    (Assembled /\ map_success) =>
      /\ Len(html_content) = Len(prs)
      /\ \A i \in 1..Len(prs) :
            html_content[i].content = RenderOf(i, Len(slide_data_list[i]))

\* C2: when a rendering task fails with an uncaught exception, the failure
\* is logged, that slide alone gets an empty fragment, and every other
\* slide's fragment is in the assembled document at its own position.
C2_TaskFailureIsolated ==
    Assembled =>
      \A i \in 1..Len(tasks) :
         tasks[i].st = "raised" =>
           /\ \E e \in log : e.level = "ERROR"
           /\ Len(html_content) = Len(prs)
           /\ html_content[i].content = <<>>
           /\ \A j \in 1..Len(tasks) :
                 tasks[j].st = "returned" =>
                   html_content[j].content = tasks[j].html

\* C3: with materialization enabled, a picture whose bytes fail to decode
\* or to save (whatever the failure) yields the placeholder naming slide
\* slideIndex+1 and shape shapeIndex+1, and the failure does not leave the
\* shape renderer: the task goes on with the slide's remaining shapes.
C3_ImageFailureGivesPlaceholder ==
    \A i \in 1..Len(tasks) :
       LET k == tasks[i].done
       IN  (/\ k >= 1
            /\ ~ignore_images
            /\ prs[i][k].shape_type = PICTURE
            /\ prs[i][k].blob # "png")
           => /\ tasks[i].st # "raised"
              /\ tasks[i].html # <<>>
              /\ LastOf(tasks[i].html) = PlaceholderToken(i, k)

\* Supporting C3: a decode failure that is an OSError yields the
\* placeholder and a warning naming the slide and the shape.
OSErrorGivesPlaceholder ==
    \A i \in 1..Len(tasks) :
       LET k == tasks[i].done
       IN  (/\ k >= 1
            /\ ~ignore_images
            /\ prs[i][k].shape_type = PICTURE
            /\ prs[i][k].blob = "corrupt")
           => /\ tasks[i].st # "raised"
              /\ tasks[i].html # <<>>
              /\ LastOf(tasks[i].html) = PlaceholderToken(i, k)
              /\ \E e \in log : e.slide = Some(i) /\ e.shape = Some(k)

\* C4: on a pipeline-fatal error (the asset directory cannot be created,
\* the pool cannot be started, the output file cannot be written) the run
\* ends with a failure status and no complete output file; and a run whose
\* rendering phase failed never ends with a written output file and a
\* success status.
C4_FatalErrorAborts ==
    (/\ pc = "exit"
     /\ \/ image_dir = None
        \/ pool = "none"
        \/ output_file.written # "complete"
        \/ ~map_success)
    => /\ exit_status = Some(1)
       /\ output_file.written # "complete"

\* Supporting C4: the three fatal errors alone do end the run with status 1
\* and no complete output file.
FatalErrorsAbort ==
    (/\ pc = "exit"
     /\ \/ image_dir = None
        \/ pool = "none"
        \/ output_file.written # "complete")
    => /\ exit_status = Some(1)
       /\ output_file.written # "complete"

\* C5: the file saved for the picture at (slideIndex, shapeIndex) is
\* images/slide_{slideIndex+1}_image_{shapeIndex+1}.png; no two saves, of
\* whatever tasks in whatever interleaving, have the same path, and no
\* saved file ever leaves the asset directory.
C5_AssetPathsDistinct ==
    /\ [](/\ \A f \in image_files :
               /\ f.path = "images/slide_" \o ToString(f.slide_index + 1)
                             \o "_image_" \o ToString(f.shape_index + 1)
                             \o ".png"
               /\ prs[f.slide_index + 1][f.shape_index + 1].shape_type = PICTURE
          /\ \A f, g \in image_files : f.path = g.path => f = g)
    /\ [][image_files \subseteq image_files']_vars

\* Two tasks running at once have each saved a picture.
C5_Witness ==
    /\ Len(tasks) = 2
    /\ \A i \in 1..Len(tasks) : tasks[i].st = "running"
    /\ \E f, g \in image_files : f.slide_index # g.slide_index

\* C6: the slides are extracted one after the other in document order, and
\* before the pool exists or any task starts every slide has been
\* extracted and the asset directory created; the tasks work on the
\* serialized copies of the extracted records.
C6_ExtractionBeforeRendering ==
    /\ Len(slide_data_list) <= Len(prs)
    /\ \A i \in 1..Len(slide_data_list) :
          slide_data_list[i] = extract_slide_data(prs[i])
    /\ (pool # "none" \/ tasks # <<>>) =>
          /\ image_dir # None
          /\ Len(slide_data_list) = Len(prs)
    /\ \A i \in 1..Len(tasks) :
          /\ tasks[i].st # "queued" => pool # "none"
          /\ tasks[i].slide_data_json = json_dumps(slide_data_list[i])
    /\ tasks # <<>> => Len(tasks) = Len(prs)

\* The pool runs a task of a two-slide deck, all of it extracted.
C6_Witness ==
    /\ pool = "running"
    /\ Len(prs) = 2
    /\ Len(prs[2]) >= 1
    /\ \E i \in 1..Len(tasks) : tasks[i].st = "running" /\ tasks[i].done >= 1

\* C7: with image materialization disabled no file is saved to the asset
\* directory, and every picture shape yields the <img> fragment referencing
\* images/slide_{slideIndex+1}_image_{shapeIndex+1}.png, never the failure
\* placeholder (nor an exception).
C7_IgnoreImagesWritesNothing ==
    ignore_images =>
      /\ image_files = {}
      /\ \A e \in log : e.msg # "Failed to process image"
      /\ \A i \in 1..Len(tasks) :
            /\ tasks[i].st # "raised"
            /\ LET k == tasks[i].done
               IN  (k >= 1 /\ prs[i][k].shape_type = PICTURE) =>
                     /\ tasks[i].html # <<>>
                     /\ LastOf(tasks[i].html) = ImgToken(i, k)

\* A dry run has ended with status 0 after rendering a picture whose bytes
\* do not decode.
C7_Witness ==
    /\ ignore_images
    /\ exit_status = Some(0)
    /\ \E i \in 1..Len(tasks) :
          /\ tasks[i].st = "returned"
          /\ tasks[i].done >= 1
          /\ prs[i][tasks[i].done].shape_type = PICTURE
          /\ prs[i][tasks[i].done].blob = "bomb"

\* '#rrggbb' of the colours of the decks
C8_HexOf(rgb) == CASE rgb = <<255, 10, 0>> -> "#ff0a00"

\* C8: a text-frame shape taken through extraction, serialization and
\* rendering gets background-color with the hex string of a solid fill,
\* `background-color: transparent;` for a BACKGROUND fill, and
\* `background-color: transparent;` when no fill is recognized.
C8_FillBackground ==
    \A i \in 1..Len(tasks) :
       LET k == tasks[i].done
       IN  (/\ k >= 1
            /\ prs[i][k].shape_type # PICTURE
            /\ prs[i][k].has_text_frame)
           => /\ tasks[i].html # <<>>
              /\ LastOf(tasks[i].html).tag = "div"
              /\ LastOf(tasks[i].html).attr =
                   IF prs[i][k].fill_type = "SOLID"
                   THEN "background-color: " \o C8_HexOf(prs[i][k].rgb[1]) \o ";"
                   ELSE "background-color: transparent;"

\* Supporting C8: the solid and the BACKGROUND fills do render so.
RecognizedFillBackground ==
    \A i \in 1..Len(tasks) :
       LET k == tasks[i].done
       IN  (/\ k >= 1
            /\ prs[i][k].shape_type # PICTURE
            /\ prs[i][k].has_text_frame
            /\ prs[i][k].fill_type \in {"SOLID", "BACKGROUND"})
           => /\ tasks[i].html # <<>>
              /\ LastOf(tasks[i].html).attr =
                   IF prs[i][k].fill_type = "SOLID"
                   THEN "background-color: " \o C8_HexOf(prs[i][k].rgb[1]) \o ";"
                   ELSE "background-color: transparent;"

\* The failures that have happened, each as <<slide number, shape number>>
\* (1-based, as the log prints them).
TextFrameFailures ==
    { <<i, k>> \in (1..MaxSlides) \X (1..MaxShapes) :
        /\ i <= Len(slide_data_list)
        /\ k <= Len(prs[i])
        /\ prs[i][k].has_text_frame
        /\ prs[i][k].malformed }

ImageFailures ==
    { <<i, k>> \in (1..MaxSlides) \X (1..MaxShapes) :
        /\ i <= Len(tasks)
        /\ k <= tasks[i].done
        /\ ~ignore_images
        /\ prs[i][k].shape_type = PICTURE
        /\ prs[i][k].blob = "corrupt" }

TaskFailures ==
    { <<i, k>> \in (1..MaxSlides) \X (1..MaxShapes) :
        /\ pool = "terminated"
        /\ i <= Len(tasks)
        /\ tasks[i].st = "raised"
        /\ k = tasks[i].done }

\* C9: every failure of a run (a text-frame extraction error, an image
\* decode/write failure, a per-slide task failure) has a log entry that
\* carries the slide index and the shape index of the offending shape.
C9_FailuresLocatedInLog ==
    \A f \in TextFrameFailures \cup ImageFailures \cup TaskFailures :
       \E e \in log : e.slide = Some(f[1]) /\ e.shape = Some(f[2])

\* Supporting C9: the image failures the renderer catches are located.
ImageFailuresLocatedInLog ==
    \A f \in ImageFailures :
       \E e \in log : e.slide = Some(f[1]) /\ e.shape = Some(f[2])

\* C10: a slide's fragment is the concatenation of its shapes' fragments in
\* extraction order, the shape at position k of the extracted list rendered
\* with shape index k (0-based); a shape that renders nothing adds the
\* empty string and shifts neither the index nor the order of the others.
C10_ShapesInExtractionOrder ==
    \A i \in 1..Len(tasks) :
       /\ tasks[i].st \in {"running", "returned"} =>
            tasks[i].html = RenderOf(i, tasks[i].done)
       /\ tasks[i].st = "returned" =>
            /\ tasks[i].done = Len(prs[i])
            /\ map_success => map_value[i] = Some(RenderOf(i, Len(prs[i])))

\* A returned slide whose first shape renders nothing and whose second is a
\* picture: its fragment is the one <img>, named for shape 2.
C10_Witness ==
    \E i \in 1..Len(tasks) :
       /\ tasks[i].st = "returned"
       /\ Len(prs[i]) = 2
       /\ prs[i][1].shape_type = LINE
       /\ prs[i][2].shape_type = PICTURE
       /\ tasks[i].html = <<ImgToken(i, 2)>>

====
